---- MODULE Spec2Model ----
(***************************************************************************)
(* A model of the Ray tutorial notebooks of dmatrix/devAIWorld23:         *)
(*   ex_02_remote_classes.ipynb  - Monte Carlo pi with a progress actor   *)
(*   ex_04_ray_libraries.ipynb   - the Ray AI libraries walkthrough, the  *)
(*                                 actor tree (Supervisor / workers) and  *)
(*                                 the ActorPool batch inference example  *)
(* The driver of a notebook is its sequence of code cells; tasks and      *)
(* actors run asynchronously to it.  Calls to one actor made by the same  *)
(* caller are handled in the order they were issued (one FIFO per caller).*)
(***************************************************************************)
EXTENDS Integers, Sequences, FiniteSets, TLC

VARIABLES
    \* which notebook runs, the driver's position in it, the runtime
    notebook, pc, ray, serve, illegalCall,
    \* ex_02: the notebook's globals (0 while the name is still unbound)
    NUM_SAMPLING_TASKS, NUM_SAMPLES_PER_TASK, TOTAL_NUM_SAMPLES,
    SAMPLE_REPORT_FREQUENCY,
    \* ex_02: the progress actor, the sampling tasks, the messages in flight
    progress_actor, tasks, inbox, sent, returned,
    \* ex_02: the driver's get_progress call: <<>> with none in flight,
    \* <<"queued">> once issued, <<"done", value>> once the actor has handled it
    get_progress_call,
    \* ex_02: the driver's variables
    progress, printed, total_num_inside, pi,
    \* actor tree: the worker actors of the cluster, the Supervisor actor with
    \* its queued calls and its running work() call, the driver's variables
    workers, supervisor, supervisor_calls, work, values, states, sorted_by_mse,
    \* batch inference: the object store, the shard paths, the predictor
    \* actors, the ActorPool, the completed predictions, the driver's r (here
    \* get_next_r) and
    \* all the results the driver has been handed
    model_ref, input_shard_files, actors, actors_pool, predictions, get_next_r, yielded,
    \* history of the batch inference: the values the driver's loop passed to
    \* actors_pool.submit, the actors that ran predict on each shard, and the
    \* number of times the model was fetched from the object store
    submitted, predicted, model_fetches,
    \* calls made directly by a caller outside the notebooks: the calls so far
    \* and the exception that ended them
    history, raised

lifeVars == <<notebook, pc, ray, serve, illegalCall>>
piGlobals == <<NUM_SAMPLING_TASKS, NUM_SAMPLES_PER_TASK, TOTAL_NUM_SAMPLES,
               SAMPLE_REPORT_FREQUENCY>>
piActorVars == <<progress_actor, inbox, get_progress_call>>
piTaskVars == <<tasks, sent, returned>>
piDriverVars == <<progress, printed, total_num_inside, pi>>
piVars == <<piGlobals, piActorVars, piTaskVars, piDriverVars>>
treeActorVars == <<workers, supervisor, supervisor_calls, work>>
treeDriverVars == <<values, states, sorted_by_mse>>
poolHistory == <<submitted, predicted, model_fetches>>
poolVars == <<model_ref, input_shard_files, actors, actors_pool, predictions,
              get_next_r, yielded, poolHistory>>
treeVars == <<treeActorVars, treeDriverVars, poolVars>>
unitVars == <<history, raised>>
vars == <<lifeVars, piVars, treeVars, unitVars>>

(***************************************************************************)
(* Bounds of the model.                                                    *)
(***************************************************************************)
\* os.cpu_count() is drawn from 1..MaxCpuCount
MaxCpuCount == 2
\* NUM_SAMPLES_PER_TASK (10_000_000 in the notebook) is drawn from 1..MaxSamplesPerTask
MaxSamplesPerTask == 3
\* SAMPLE_REPORT_FREQUENCY (1_000_000 in the notebook) is drawn from 1..MaxReportFrequency
MaxReportFrequency == 2
\* the parameters are drawn with TOTAL_NUM_SAMPLES <= MaxTotalSamples
MaxTotalSamples == 4
\* the mse of a trained model is drawn from 1..MaxMse
MaxMse == 2
\* the time a training took is drawn from 1..MaxTime
MaxTime == 1
\* a sampling task run on its own: num_samples is drawn from 0..MaxNumSamples
\* and frequency_report from 1..MaxFrequencyReport
MaxNumSamples == 5
MaxFrequencyReport == 3
\* direct calls of report_progress: at most MaxCalls of them, with task_id
\* from 0..MaxTaskId and num_samples_completed from 0..MaxCount
MaxCalls == 3
MaxTaskId == 1
MaxCount == 2
\* direct calls of create_model: at most MaxFactoryCalls of them
MaxFactoryCalls == 4
\* passes of the loop that waits for the states to be DONE
MaxPasses == 2

(***************************************************************************)
(* Python values.                                                          *)
(***************************************************************************)
\* an unbound name or an empty optional: the empty tuple; a bound one: <<v>>
Unbound == <<>>
Bound(v) == <<v>>

\* a / b of two ints (true division), kept exact as the pair <<a, b>>
Ratio(a, b) == <<a, b>>
\* (a / b) == 1
RatioIsOne(r) == r[1] = r[2]
\* the percentages k for which the double (k / 100) * 100 falls just under k
PercentsUnder == {29, 57, 58}

\* int((a / b) * 100) in double arithmetic, for a ratio within 0..1: the
\* floor of 100 * a / b, and one less when 100 * a / b is one of the whole
\* numbers that the double product falls just under (29 / 50 gives 57)
Percent(r) ==
    LET exact == (100 * r[1]) \div r[2]
    IN IF (100 * r[1]) % r[2] = 0 /\ exact \in PercentsUnder
       THEN exact - 1
       ELSE exact

\* sum(d.values()) of a dict d, a function from its keys to ints
RECURSIVE SumValues(_)
SumValues(d) ==
    IF DOMAIN d = {} THEN 0
    ELSE LET k == CHOOSE x \in DOMAIN d : TRUE
         IN d[k] + SumValues([x \in DOMAIN d \ {k} |-> d[x]])

\* d[k] = v on a dict
DictSet(d, k, v) == [x \in DOMAIN d \cup {k} |-> IF x = k THEN v ELSE d[x]]

(***************************************************************************)
(* The runtime.                                                            *)
(***************************************************************************)
\* ray.shutdown(): a no-op when Ray is not initialized
RayShutdown(r) == "down"
\* ray.init(): raises when Ray is already initialized
RayInit(r) == IF r = "down" THEN "up" ELSE "error"
\* a .remote() call (a task, an actor creation or an actor method call) is
\* issued: it needs an initialized runtime
Issue == illegalCall' = (illegalCall \/ ray # "up")

(***************************************************************************)
(* ProgressPIActor                                                         *)
(***************************************************************************)
\* ProgressPIActor.__init__
ProgressPIActorInit(total_num_samples) ==
    [created |-> TRUE,
     total_num_samples |-> total_num_samples,
     num_samples_completed_per_task |-> <<>>]

NoActor ==
    [created |-> FALSE,
     total_num_samples |-> 0,
     num_samples_completed_per_task |-> <<>>]

\* report_progress that adds the count to the one stored for the task
report_progress_adds(self, task_id, num_samples_completed) ==
    [self EXCEPT !.num_samples_completed_per_task =
        DictSet(self.num_samples_completed_per_task, task_id,
                (IF task_id \in DOMAIN self.num_samples_completed_per_task
                 THEN self.num_samples_completed_per_task[task_id] ELSE 0)
                + num_samples_completed)]

\* report_progress that keeps the first count stored for the task
report_progress_setdefault(self, task_id, num_samples_completed) ==
    IF task_id \in DOMAIN self.num_samples_completed_per_task THEN self
    ELSE [self EXCEPT !.num_samples_completed_per_task =
             DictSet(self.num_samples_completed_per_task, task_id,
                     num_samples_completed)]

\* report_progress that keeps one count for all the tasks, under key 0
report_progress_shared_key(self, task_id, num_samples_completed) ==
    [self EXCEPT !.num_samples_completed_per_task =
        DictSet(self.num_samples_completed_per_task, 0,
                num_samples_completed)]

\* ProgressPIActor.report_progress: the actor after the call
report_progress(self, task_id, num_samples_completed) ==
    [self EXCEPT !.num_samples_completed_per_task =
        DictSet(self.num_samples_completed_per_task, task_id,
                num_samples_completed)]

\* ProgressPIActor.get_progress: the value returned (ZeroDivisionError when
\* total_num_samples is 0)
get_progress(self) ==
    IF self.total_num_samples = 0 THEN "ZeroDivisionError"
    ELSE Ratio(SumValues(self.num_samples_completed_per_task),
               self.total_num_samples)

(***************************************************************************)
(* sampling_task                                                           *)
(***************************************************************************)
\* a sampling task started with task id 0 whatever id it is given
SamplingTaskStart_same_id(num_samples, task_id, frequency_report) ==
    [pc |-> "loop",
     num_samples |-> num_samples,
     task_id |-> 0,
     frequency_report |-> frequency_report,
     i |-> 0,
     num_inside |-> 0]

\* sampling_task.remote(num_samples, task_id, progress_actor, frequency_report)
\* at its first statement
SamplingTaskStart(num_samples, task_id, frequency_report) ==
    [pc |-> "loop",
     num_samples |-> num_samples,
     task_id |-> task_id,
     frequency_report |-> frequency_report,
     i |-> 0,
     num_inside |-> 0]

\* the loop's report taken on i instead of i + 1
LoopReport_on_i(t) ==
    IF t.i % t.frequency_report = 0
    THEN << <<t.task_id, t.i>> >>
    ELSE <<>>

\* the reports one loop iteration sends: (i + 1) % frequency_report == 0
LoopReport(t) ==
    IF (t.i + 1) % t.frequency_report = 0
    THEN << <<t.task_id, t.i + 1>> >>
    ELSE <<>>

\* no report after the loop
FinalReport_none(t) == <<>>

\* the report sent after the loop
FinalReport(t) == << <<t.task_id, t.num_samples>> >>

\* a sample inside the circle counted twice
SampleOutcomes_twice(num_inside) == {num_inside, num_inside + 2}

\* num_inside after one sample: the point fell inside the circle or not
SampleOutcomes(num_inside) == {num_inside, num_inside + 1}

\* progress_actor.report_progress.remote(...) by task r: the messages are
\* queued behind the caller's earlier ones
Send(r, msgs) ==
    /\ inbox' = [inbox EXCEPT ![r] = @ \o msgs]
    /\ sent' = [sent EXCEPT ![r] = @ \o [k \in 1..Len(msgs) |-> msgs[k][2]]]

\* one iteration of the for loop of task r
SampleLoop(r) ==
    /\ r \in DOMAIN tasks
    /\ tasks[r].pc = "loop"
    /\ tasks[r].i < tasks[r].num_samples
    /\ \E n \in SampleOutcomes(tasks[r].num_inside) :
          tasks' = [tasks EXCEPT ![r].num_inside = n, ![r].i = @ + 1]
    /\ Send(r, LoopReport(tasks[r]))
    /\ IF LoopReport(tasks[r]) # <<>> THEN Issue ELSE UNCHANGED illegalCall
    /\ UNCHANGED <<notebook, pc, ray, serve, piGlobals, progress_actor,
                   returned, piDriverVars, treeVars, unitVars,
                   get_progress_call>>

\* the loop of task r is over: report the final progress
SampleFinalReport(r) ==
    /\ r \in DOMAIN tasks
    /\ tasks[r].pc = "loop"
    /\ tasks[r].i >= tasks[r].num_samples
    /\ tasks' = [tasks EXCEPT ![r].pc = "return"]
    /\ Send(r, FinalReport(tasks[r]))
    /\ Issue
    /\ UNCHANGED <<notebook, pc, ray, serve, piGlobals, progress_actor,
                   returned, piDriverVars, treeVars, unitVars,
                   get_progress_call>>

\* return num_inside
SampleReturn(r) ==
    /\ r \in DOMAIN tasks
    /\ tasks[r].pc = "return"
    /\ tasks' = [tasks EXCEPT ![r].pc = "done"]
    /\ returned' = DictSet(returned, r, tasks[r].num_inside)
    /\ UNCHANGED <<lifeVars, piGlobals, piActorVars, sent, piDriverVars,
                   treeVars, unitVars>>

\* the actor handles the next report_progress message of caller r
ActorReportProgress(r) ==
    /\ r \in DOMAIN inbox
    /\ inbox[r] # <<>>
    /\ progress_actor.created
    /\ progress_actor' =
          report_progress(progress_actor, Head(inbox[r])[1], Head(inbox[r])[2])
    /\ inbox' = [inbox EXCEPT ![r] = Tail(@)]
    /\ UNCHANGED <<lifeVars, piGlobals, piTaskVars, piDriverVars, treeVars,
                   unitVars,
                   get_progress_call>>

(***************************************************************************)
(* The driver of ex_02_remote_classes.ipynb, cell by cell.                 *)
(***************************************************************************)
\* if ray.is_initialized: ray.shutdown()      (is_initialized is not called:
\* ray.init(logging_level=logging.ERROR)       the function object is true)
RayInitCell ==
    /\ pc = "init"
    /\ ray' = RayInit(RayShutdown(ray))
    /\ pc' = IF notebook = "ex_02_remote_classes" THEN "parameters"
             ELSE IF notebook = "actor_tree" THEN "supervisor"
             ELSE "read_parquet"
    /\ UNCHANGED <<notebook, serve, illegalCall, piVars, treeVars, unitVars>>

\* the tunable parameters, and progress_actor = ProgressPIActor.remote(...)
ParametersCell ==
    /\ notebook = "ex_02_remote_classes"
    /\ pc = "parameters"
    /\ \E cpus \in 1..MaxCpuCount, samples \in 1..MaxSamplesPerTask,
          frequency \in 1..MaxReportFrequency :
          /\ cpus * samples <= MaxTotalSamples
          /\ NUM_SAMPLING_TASKS' = cpus
          /\ NUM_SAMPLES_PER_TASK' = samples
          /\ TOTAL_NUM_SAMPLES' = cpus * samples
          /\ SAMPLE_REPORT_FREQUENCY' = frequency
          /\ progress_actor' = ProgressPIActorInit(cpus * samples)
    /\ Issue
    /\ pc' = "launch"
    /\ UNCHANGED <<notebook, ray, serve, inbox, piTaskVars, piDriverVars,
                   treeVars, unitVars,
                   get_progress_call>>

\* results = [sampling_task.remote(NUM_SAMPLES_PER_TASK, i, progress_actor,
\*            frequency_report=SAMPLE_REPORT_FREQUENCY)
\*            for i in range(NUM_SAMPLING_TASKS)]: one element of the list
LaunchCell ==
    /\ notebook = "ex_02_remote_classes"
    /\ pc = "launch"
    /\ LET i == Cardinality(DOMAIN tasks)
       IN /\ i < NUM_SAMPLING_TASKS
          /\ tasks' = DictSet(tasks, i,
                SamplingTaskStart(NUM_SAMPLES_PER_TASK, i,
                                  SAMPLE_REPORT_FREQUENCY))
          /\ inbox' = DictSet(inbox, i, <<>>)
          /\ sent' = DictSet(sent, i, <<>>)
          /\ pc' = IF i + 1 = NUM_SAMPLING_TASKS THEN "poll" ELSE "launch"
    /\ Issue
    /\ UNCHANGED <<notebook, ray, serve, piGlobals, progress_actor, returned,
                   piDriverVars, treeVars, unitVars,
                   get_progress_call>>

\* the polling loop, up to the wait of its ray.get:
\*   while True:
\*       progress = ray.get(progress_actor.get_progress.remote())
\* get_progress.remote() is issued
PollCell ==
    /\ notebook = "ex_02_remote_classes"
    /\ pc = "poll"
    /\ progress_actor.created
    /\ get_progress_call' = <<"queued">>
    /\ pc' = "poll_get"
    /\ Issue
    /\ UNCHANGED <<notebook, ray, serve, piGlobals, progress_actor, inbox,
                   piTaskVars, piDriverVars, treeVars, unitVars>>

\* the actor handles the driver's get_progress call, between two
\* report_progress messages
ActorGetProgress ==
    /\ get_progress_call = <<"queued">>
    /\ get_progress_call' = <<"done", get_progress(progress_actor)>>
    /\ UNCHANGED <<lifeVars, piGlobals, progress_actor, inbox, piTaskVars,
                   piDriverVars, treeVars, unitVars>>

\* ray.get returns and the pass of the loop ends:
\*   progress = ...
\*   print(f"Progress: {int(progress * 100)}%")
\*   if progress == 1: break
\*   time.sleep(1)
PollGetCell ==
    /\ notebook = "ex_02_remote_classes"
    /\ pc = "poll_get"
    /\ Len(get_progress_call) = 2
    /\ progress' = Bound(get_progress_call[2])
    /\ printed' = Bound(Percent(get_progress_call[2]))
    /\ pc' = IF RatioIsOne(get_progress_call[2]) THEN "pi" ELSE "poll"
    /\ get_progress_call' = <<>>
    /\ UNCHANGED <<notebook, ray, serve, illegalCall, piGlobals,
                   progress_actor, inbox, piTaskVars, total_num_inside, pi,
                   treeVars, unitVars>>

\* the pi cell with a ray.get that takes the results present, without blocking
PiCell_nowait ==
    /\ notebook = "ex_02_remote_classes"
    /\ pc = "pi"
    /\ total_num_inside' = Bound(SumValues(returned))
    /\ pi' = Bound(Ratio(SumValues(returned) * 4, TOTAL_NUM_SAMPLES))
    /\ pc' = "shutdown"
    /\ UNCHANGED <<notebook, ray, serve, illegalCall, piGlobals, piActorVars,
                   piTaskVars, progress, printed, treeVars, unitVars>>

\* total_num_inside = sum(ray.get(results)); pi = (total_num_inside * 4) / TOTAL_NUM_SAMPLES
PiCell ==
    /\ notebook = "ex_02_remote_classes"
    /\ pc = "pi"
    /\ DOMAIN returned = DOMAIN tasks
    /\ total_num_inside' = Bound(SumValues(returned))
    /\ pi' = Bound(Ratio(SumValues(returned) * 4, TOTAL_NUM_SAMPLES))
    /\ pc' = "shutdown"
    /\ UNCHANGED <<notebook, ray, serve, illegalCall, piGlobals, piActorVars,
                   piTaskVars, progress, printed, treeVars, unitVars>>

\* ray.shutdown()
RayShutdownCell ==
    /\ pc = "shutdown"
    /\ ray' = RayShutdown(ray)
    /\ pc' = "end"
    /\ UNCHANGED <<notebook, serve, illegalCall, piVars, treeVars, unitVars>>

(***************************************************************************)
(* ModelFactory                                                            *)
(***************************************************************************)
\* ModelFactory.MODEL_TYPES
MODEL_TYPES == <<"random_forest", "decision_tree", "xgboost">>

\* x in a list
InList(x, list) == \E k \in 1..Len(list) : list[k] = x

\* RFRActor.remote(configs), DTActor.remote(configs), XGBoostActor.remote(configs):
\* the actor that is created
ActorOf(cls, configs) == [cls |-> cls, configs |-> configs]

\* create_model without the check of the name: the last branch takes every
\* other name
create_model_unchecked(model_name) ==
    IF model_name = "random_forest"
    THEN [raised |-> Unbound,
          actor |-> Bound(ActorOf("RFRActor", "RANDOM_FOREST_CONFIGS"))]
    ELSE IF model_name = "decision_tree"
    THEN [raised |-> Unbound,
          actor |-> Bound(ActorOf("DTActor", "DECISION_TREE_CONFIGS"))]
    ELSE [raised |-> Unbound,
          actor |-> Bound(ActorOf("XGBoostActor", "XGBOOST_CONFIGS"))]

\* create_model with the configurations of two branches exchanged
create_model_swapped(model_name) ==
    IF ~InList(model_name, MODEL_TYPES)
    THEN [raised |-> Bound(model_name \o " not supported"), actor |-> Unbound]
    ELSE IF model_name = "random_forest"
    THEN [raised |-> Unbound,
          actor |-> Bound(ActorOf("RFRActor", "RANDOM_FOREST_CONFIGS"))]
    ELSE IF model_name = "decision_tree"
    THEN [raised |-> Unbound,
          actor |-> Bound(ActorOf("DTActor", "XGBOOST_CONFIGS"))]
    ELSE [raised |-> Unbound,
          actor |-> Bound(ActorOf("XGBoostActor", "DECISION_TREE_CONFIGS"))]

\* ModelFactory.create_model: the exception raised (its message) or the
\* worker actor created
create_model(model_name) ==
    IF ~InList(model_name, MODEL_TYPES)
    THEN [raised |-> Bound(model_name \o " not supported"), actor |-> Unbound]
    ELSE IF model_name = "random_forest"
    THEN [raised |-> Unbound,
          actor |-> Bound(ActorOf("RFRActor", "RANDOM_FOREST_CONFIGS"))]
    ELSE IF model_name = "decision_tree"
    THEN [raised |-> Unbound,
          actor |-> Bound(ActorOf("DTActor", "DECISION_TREE_CONFIGS"))]
    ELSE [raised |-> Unbound,
          actor |-> Bound(ActorOf("XGBoostActor", "XGBOOST_CONFIGS"))]

(***************************************************************************)
(* The worker actors of model_helper_utils.                                *)
(***************************************************************************)
\* the "name" entry of a configuration of model_helper_utils
ConfigName(configs) ==
    IF configs = "RANDOM_FOREST_CONFIGS" THEN "random_forest"
    ELSE IF configs = "DECISION_TREE_CONFIGS" THEN "decision_tree"
    ELSE "xgboost"

\* a worker actor after its construction: no call queued, none handled
WorkerStart(actor) ==
    [cls |-> actor.cls,
     configs |-> actor.configs,
     state |-> "INITIALIZED",
     queued |-> 0,
     submitted |-> 0,
     done |-> <<>>]

\* the record built before the state is set to DONE
TrainResult_running(w, mse, time) ==
    [name |-> ConfigName(w.configs), mse |-> mse, time |-> time,
     state |-> w.state]

\* the record train_and_evaluate_model returns
TrainResult(w, mse, time) ==
    [name |-> ConfigName(w.configs), mse |-> mse, time |-> time,
     state |-> "DONE"]

\* worker k starts to handle a queued train_and_evaluate_model call
WorkerTrainBegin(k) ==
    /\ k \in 1..Len(workers)
    /\ workers[k].queued > 0
    /\ workers[k].state # "RUNNING"
    /\ workers' = [workers EXCEPT ![k].queued = @ - 1, ![k].state = "RUNNING"]
    /\ UNCHANGED <<lifeVars, piVars, supervisor, supervisor_calls, work,
                   treeDriverVars, poolVars, unitVars>>

\* worker k finishes the call: the model is trained, its state is DONE
WorkerTrainEnd(k) ==
    /\ k \in 1..Len(workers)
    /\ workers[k].state = "RUNNING"
    /\ \E mse \in 1..MaxMse, time \in 1..MaxTime :
          workers' = [workers EXCEPT
              ![k].state = "DONE",
              ![k].done = Append(@, TrainResult(workers[k], mse, time))]
    /\ UNCHANGED <<lifeVars, piVars, supervisor, supervisor_calls, work,
                   treeDriverVars, poolVars, unitVars>>

(***************************************************************************)
(* Supervisor                                                              *)
(***************************************************************************)
NoSupervisor == [state |-> "none", worker_models |-> <<>>]
NoWork == [pc |-> "idle", results |-> <<>>, ret |-> Unbound]

\* the actors a list of create_model results holds
RECURSIVE ActorsOf(_)
ActorsOf(made) ==
    IF made = <<>> THEN <<>>
    ELSE (IF Head(made).actor = Unbound THEN <<>>
          ELSE <<WorkerStart(Head(made).actor[1])>>) \o ActorsOf(Tail(made))

\* Supervisor.__init__:
\*   self.worker_models = [ModelFactory.create_model(name)
\*                         for name in ModelFactory.MODEL_TYPES]
\* worker_models holds the handles (the positions in workers) of the new actors
SupervisorInit ==
    /\ supervisor.state = "constructing"
    /\ LET made == [k \in 1..Len(MODEL_TYPES) |-> create_model(MODEL_TYPES[k])]
           failed == \E k \in 1..Len(made) : made[k].raised # Unbound
       IN IF failed
          THEN /\ supervisor' = [supervisor EXCEPT !.state = "dead"]
               /\ UNCHANGED workers
          ELSE /\ workers' = workers \o ActorsOf(made)
               /\ supervisor' =
                     [state |-> "ready",
                      worker_models |->
                          [k \in 1..Len(made) |-> Len(workers) + k]]
    /\ Issue
    /\ UNCHANGED <<notebook, pc, ray, serve, piVars, supervisor_calls, work,
                   treeDriverVars, poolVars, unitVars>>

\* the Supervisor takes the next queued work() call
SupervisorWork ==
    /\ supervisor.state = "ready"
    /\ supervisor_calls # <<>>
    /\ work.pc \in {"idle", "returned"}
    /\ supervisor_calls' = Tail(supervisor_calls)
    /\ work' = [pc |-> IF supervisor.worker_models = <<>> THEN "get"
                       ELSE "submit",
                results |-> <<>>, ret |-> Unbound]
    /\ UNCHANGED <<lifeVars, piVars, workers, supervisor, treeDriverVars, poolVars,
                   unitVars>>

\* results = [worker_model.train_and_evaluate_model.remote()
\*            for worker_model in self.worker_models]: one element of the list.
\* The future <<k, n>> is the n-th call of worker k.
SupervisorWorkSubmit ==
    /\ work.pc = "submit"
    /\ LET k == supervisor.worker_models[Len(work.results) + 1]
           n == workers[k].submitted + 1
       IN /\ workers' = [workers EXCEPT ![k].queued = @ + 1,
                                        ![k].submitted = n]
          /\ work' = [work EXCEPT
                !.results = Append(@, <<k, n>>),
                !.pc = IF Len(work.results) + 1 = Len(supervisor.worker_models)
                       THEN "get" ELSE "submit"]
    /\ Issue
    /\ UNCHANGED <<notebook, pc, ray, serve, piVars, supervisor,
                   supervisor_calls, treeDriverVars, poolVars, unitVars>>

\* a future is complete
Complete(future) == Len(workers[future[1]].done) >= future[2]

\* the results of the futures that are complete, in the order of the list
RECURSIVE CompleteResults(_)
CompleteResults(futures) ==
    IF futures = <<>> THEN <<>>
    ELSE (IF Complete(Head(futures))
          THEN <<workers[Head(futures)[1]].done[Head(futures)[2]]>>
          ELSE <<>>) \o CompleteResults(Tail(futures))

\* work() that returns as soon as one future is complete
SupervisorWorkGet_first ==
    /\ work.pc = "get"
    /\ \E j \in 1..Len(work.results) : Complete(work.results[j])
    /\ work' = [work EXCEPT !.pc = "returned",
                            !.ret = Bound(CompleteResults(work.results))]
    /\ UNCHANGED <<lifeVars, piVars, workers, supervisor, supervisor_calls,
                   treeDriverVars, poolVars, unitVars>>

\* return ray.get(results): blocks until every future is complete
SupervisorWorkGet ==
    /\ work.pc = "get"
    /\ \A j \in 1..Len(work.results) : Complete(work.results[j])
    /\ work' = [work EXCEPT
          !.pc = "returned",
          !.ret = Bound([j \in 1..Len(work.results) |->
                    workers[work.results[j][1]].done[work.results[j][2]]])]
    /\ UNCHANGED <<lifeVars, piVars, workers, supervisor, supervisor_calls,
                   treeDriverVars, poolVars, unitVars>>

(***************************************************************************)
(* The driver of the actor tree notebook, cell by cell.                    *)
(***************************************************************************)
\* supervisor = Supervisor.remote()
SupervisorCell ==
    /\ notebook = "actor_tree"
    /\ pc = "supervisor"
    /\ supervisor' = [state |-> "constructing", worker_models |-> <<>>]
    /\ pc' = "work"
    /\ Issue
    /\ UNCHANGED <<notebook, ray, serve, piVars, workers, supervisor_calls,
                   work, treeDriverVars, poolVars, unitVars>>

\* results = supervisor.work.remote()
WorkCell ==
    /\ notebook = "actor_tree"
    /\ pc = "work"
    /\ supervisor_calls' = Append(supervisor_calls, "work")
    /\ pc' = "values"
    /\ Issue
    /\ UNCHANGED <<notebook, ray, serve, piVars, workers, supervisor, work,
                   treeDriverVars, poolVars, unitVars>>

\* values = ray.get(results)
ValuesCell ==
    /\ notebook = "actor_tree"
    /\ pc = "values"
    /\ work.pc = "returned"
    /\ values' = work.ret
    /\ pc' = "states"
    /\ UNCHANGED <<notebook, ray, serve, illegalCall, piVars, treeActorVars, poolVars,
                   states, sorted_by_mse, unitVars>>

\* states = []
\* while True:
\*     for value in values: states.append(value["state"])
\*     result = all('DONE' == e for e in states)
\*     if result: break
\* one pass of the loop: states grows by the states of values at every pass,
\* and the loop goes on for as long as one of them is not DONE
StatesCell ==
    /\ notebook = "actor_tree"
    /\ pc = "states"
    /\ Len(states) < MaxPasses * Len(values[1])
    /\ LET appended ==
               states \o [j \in 1..Len(values[1]) |-> values[1][j].state]
       IN /\ states' = appended
          /\ pc' = IF \A j \in 1..Len(appended) : appended[j] = "DONE"
                   THEN "sort" ELSE "states"
    /\ UNCHANGED <<notebook, ray, serve, illegalCall, piVars, treeActorVars, poolVars,
                   values, sorted_by_mse, unitVars>>

\* the insertion of a sort in descending order of mse
RECURSIVE InsertByMse_descending(_, _)
InsertByMse_descending(list, x) ==
    IF list = <<>> THEN <<x>>
    ELSE IF list[Len(list)].mse >= x.mse THEN Append(list, x)
    ELSE Append(InsertByMse_descending(SubSeq(list, 1, Len(list) - 1), x),
                list[Len(list)])

\* list.insert of record x behind the last record whose mse is <= x's
RECURSIVE InsertByMse(_, _)
InsertByMse(list, x) ==
    IF list = <<>> THEN <<x>>
    ELSE IF list[Len(list)].mse <= x.mse THEN Append(list, x)
    ELSE Append(InsertByMse(SubSeq(list, 1, Len(list) - 1), x),
                list[Len(list)])

\* sorted(list, key=itemgetter('mse')): a stable sort
RECURSIVE SortedByMse(_)
SortedByMse(list) ==
    IF list = <<>> THEN <<>>
    ELSE InsertByMse(SortedByMse(SubSeq(list, 1, Len(list) - 1)),
                     list[Len(list)])

\* sorted_by_mse = sorted(values, key=itemgetter('mse'))
SortCell ==
    /\ notebook = "actor_tree"
    /\ pc = "sort"
    /\ sorted_by_mse' = Bound(SortedByMse(values[1]))
    /\ pc' = "model"
    /\ UNCHANGED <<notebook, ray, serve, illegalCall, piVars, treeActorVars, poolVars,
                   values, states, unitVars>>

(***************************************************************************)
(* Batch inference: NYCBatchPredictor and ray.util.ActorPool.              *)
(***************************************************************************)
NUM_ACTORS == 6
NUM_SHARD_FILES == 12

\* the prediction of a shard by the model an actor holds
Prediction(model, shard_path) == [model |-> model, shard |-> shard_path]

\* NYCBatchPredictor.__init__: self.model = model; the calls queued for the
\* actor, as <<future, shard_path>>, in the order they were made
NYCBatchPredictorInit(model) ==
    [model |-> model, calls |-> <<>>]

\* ActorPool.__init__
ActorPoolInit(actor_list) ==
    [idle_actors |-> actor_list,
     future_to_actor |-> <<>>,
     next_task_index |-> 0,
     next_return_index |-> 0,
     pending_submits |-> <<>>]

NoPool == ActorPoolInit(<<>>)

\* a submit that drops the value when no actor is idle
ActorPoolSubmit_drops(pool, value) ==
    IF pool.idle_actors # <<>>
    THEN LET actor == pool.idle_actors[Len(pool.idle_actors)]
         IN [pool |-> [pool EXCEPT
                 !.idle_actors = SubSeq(@, 1, Len(@) - 1),
                 !.future_to_actor = DictSet(@, pool.next_task_index, actor),
                 !.next_task_index = @ + 1],
             called |-> << <<actor, pool.next_task_index, value>> >>]
    ELSE [pool |-> pool, called |-> <<>>]

\* ActorPool.submit(fn, value): with an idle actor, the last one of the list
\* is called and the future, numbered next_task_index, is recorded; with
\* none the value waits in pending_submits.  The pool after the call and
\* the calls made, as <<actor, future, value>>.
ActorPoolSubmit(pool, value) ==
    IF pool.idle_actors # <<>>
    THEN LET actor == pool.idle_actors[Len(pool.idle_actors)]
         IN [pool |-> [pool EXCEPT
                 !.idle_actors = SubSeq(@, 1, Len(@) - 1),
                 !.future_to_actor = DictSet(@, pool.next_task_index, actor),
                 !.next_task_index = @ + 1],
             called |-> << <<actor, pool.next_task_index, value>> >>]
    ELSE [pool |-> [pool EXCEPT !.pending_submits = Append(@, value)],
          called |-> <<>>]

\* ActorPool.has_next()
ActorPoolHasNext(pool) == DOMAIN pool.future_to_actor # {}

\* ActorPool._return_actor(actor)
ActorPoolReturnActor(pool, actor) ==
    LET back == [pool EXCEPT !.idle_actors = Append(@, actor)]
    IN IF back.pending_submits # <<>>
       THEN ActorPoolSubmit(
                [back EXCEPT !.pending_submits = Tail(@)],
                Head(back.pending_submits))
       ELSE [pool |-> back, called |-> <<>>]

\* ActorPool.get_next() up to its ray.get(future): the future numbered
\* next_return_index is taken and its actor is returned to the pool
ActorPoolGetNext(pool) ==
    LET future == pool.next_return_index
        actor == pool.future_to_actor[future]
        taken == [pool EXCEPT
            !.next_return_index = @ + 1,
            !.future_to_actor =
                [f \in DOMAIN pool.future_to_actor \ {future} |->
                    pool.future_to_actor[f]]]
    IN [future |-> future] @@ ActorPoolReturnActor(taken, actor)

\* actor.predict.remote(shard): the calls are queued for their actors
RECURSIVE Called(_, _)
Called(actor_list, called) ==
    IF called = <<>> THEN actor_list
    ELSE Called([actor_list EXCEPT ![Head(called)[1]].calls =
                    Append(@, <<Head(called)[2], Head(called)[3]>>)],
                Tail(called))

\* NUM_ACTORS, NUM_SHARD_FILES; model = load_trained_model();
\* model_ref = ray.put(model); input_shard_files = [... for i in range(NUM_SHARD_FILES)]
ModelCell ==
    /\ notebook = "actor_tree"
    /\ pc = "model"
    /\ model_ref' = Bound("model")
    /\ input_shard_files' = [i \in 1..NUM_SHARD_FILES |-> i - 1]
    /\ pc' = "actors"
    /\ UNCHANGED <<notebook, ray, serve, illegalCall, piVars, treeActorVars,
                   treeDriverVars, actors, actors_pool, predictions, get_next_r,
                   yielded, poolHistory, unitVars>>

\* actors = [NYCBatchPredictor.remote(model_ref) for _ in range(NUM_ACTORS)]
\* actors_pool = ActorPool(actors)
\* The runtime resolves the model_ref argument of each constructor call: one
\* fetch of the model for each actor.
ActorsCell ==
    /\ notebook = "actor_tree"
    /\ pc = "actors"
    /\ actors' = [a \in 1..NUM_ACTORS |-> NYCBatchPredictorInit(model_ref[1])]
    /\ actors_pool' = ActorPoolInit([a \in 1..NUM_ACTORS |-> a])
    /\ model_fetches' = model_fetches + NUM_ACTORS
    /\ pc' = "submit"
    /\ Issue
    /\ UNCHANGED <<notebook, ray, serve, piVars, treeActorVars, treeDriverVars,
                   model_ref, input_shard_files, predictions, get_next_r,
                   yielded, submitted, predicted, unitVars>>

\* for shard_path in input_shard_files:
\*     actors_pool.submit(lambda actor, shard: actor.predict.remote(shard), shard_path)
\* one pass of the loop
SubmitCell ==
    /\ notebook = "actor_tree"
    /\ pc = "submit"
    /\ LET n == Len(submitted)
           done == ActorPoolSubmit(actors_pool, input_shard_files[n + 1])
       IN /\ n < Len(input_shard_files)
          /\ actors_pool' = done.pool
          /\ actors' = Called(actors, done.called)
          /\ pc' = IF n + 1 = Len(input_shard_files) THEN "get_next"
                   ELSE "submit"
          /\ submitted' = Append(submitted, input_shard_files[n + 1])
          /\ IF done.called # <<>> THEN Issue ELSE UNCHANGED illegalCall
    /\ UNCHANGED <<notebook, ray, serve, piVars, treeActorVars, treeDriverVars,
                   model_ref, input_shard_files, predictions, get_next_r,
                   yielded, predicted, model_fetches, unitVars>>

\* while actors_pool.has_next(): r = actors_pool.get_next() ...
\* the test of the loop and get_next up to its ray.get
GetNextCell ==
    /\ notebook = "actor_tree"
    /\ pc = "get_next"
    /\ IF ActorPoolHasNext(actors_pool)
       THEN LET got == ActorPoolGetNext(actors_pool)
            IN /\ actors_pool' = got.pool
               /\ actors' = Called(actors, got.called)
               /\ get_next_r' = [future |-> got.future, value |-> Unbound]
               /\ pc' = "ray_get"
               /\ IF got.called # <<>> THEN Issue ELSE UNCHANGED illegalCall
       ELSE /\ pc' = "shutdown"
            /\ UNCHANGED <<actors_pool, actors, get_next_r, illegalCall>>
    /\ UNCHANGED <<notebook, ray, serve, piVars, treeActorVars, treeDriverVars,
                   model_ref, input_shard_files, predictions, yielded,
                   poolHistory, unitVars>>

\* return ray.get(future), and the print of the loop's body
RayGetCell ==
    /\ notebook = "actor_tree"
    /\ pc = "ray_get"
    /\ get_next_r.future \in DOMAIN predictions
    /\ get_next_r' =
           [get_next_r EXCEPT !.value = Bound(predictions[get_next_r.future])]
    /\ yielded' = Append(yielded, predictions[get_next_r.future])
    /\ pc' = "get_next"
    /\ UNCHANGED <<notebook, ray, serve, illegalCall, piVars, treeActorVars,
                   treeDriverVars, model_ref, input_shard_files, actors,
                   actors_pool, predictions, poolHistory, unitVars>>

\* predict that loads the model again for every shard
predict_reloads(self, shard_path) ==
    [self |-> [self EXCEPT !.model = "model"],
     fetched |-> 1,
     result |-> Prediction("model", shard_path)]

\* NYCBatchPredictor.predict: result = self.model(df); return result.
\* The actor after the call, the number of times the call fetched the model
\* and the value returned.
predict(self, shard_path) ==
    [self |-> self,
     fetched |-> 0,
     result |-> Prediction(self.model, shard_path)]

\* actor a runs predict for the next call made to it
Predict(a) ==
    /\ a \in 1..Len(actors)
    /\ actors[a].calls # <<>>
    /\ LET future == Head(actors[a].calls)[1]
           shard_path == Head(actors[a].calls)[2]
           out == predict(actors[a], shard_path)
       IN /\ actors' = [actors EXCEPT ![a] = [out.self EXCEPT !.calls = Tail(@)]]
          /\ predictions' = DictSet(predictions, future, out.result)
          /\ model_fetches' = model_fetches + out.fetched
          /\ predicted' = DictSet(predicted, shard_path,
                (IF shard_path \in DOMAIN predicted
                 THEN predicted[shard_path] ELSE <<>>) \o <<a>>)
    /\ UNCHANGED <<lifeVars, piVars, treeActorVars, treeDriverVars, model_ref,
                   input_shard_files, actors_pool, get_next_r, yielded,
                   submitted, unitVars>>

(***************************************************************************)
(* The driver of the Ray AI libraries notebook: each cell with the cell    *)
(* that follows it, whether it makes the runtime run tasks or actors, and  *)
(* what it does to Ray Serve.                                              *)
(***************************************************************************)
LibraryCells ==
    [read_parquet |->    \* ray.data.read_parquet(...), train_test_split
        [next |-> "trainer_fit", remote |-> TRUE, serve |-> "keep"],
     trainer_fit |->     \* result = trainer.fit()
        [next |-> "tuner_fit", remote |-> TRUE, serve |-> "keep"],
     tuner_fit |->       \* checkpoint = tuner.fit().get_best_result().checkpoint
        [next |-> "checkpoint", remote |-> TRUE, serve |-> "keep"],
     checkpoint |->      \* checkpoint
        [next |-> "offline_predictor", remote |-> FALSE, serve |-> "keep"],
     offline_predictor |->   \* class OfflinePredictor
        [next |-> "map_batches", remote |-> FALSE, serve |-> "keep"],
     map_batches |->     \* valid_dataset...map_batches(...): evaluated lazily
        [next |-> "take_batch", remote |-> FALSE, serve |-> "keep"],
     take_batch |->      \* predicted_probabilities.take_batch()
        [next |-> "serve_run", remote |-> TRUE, serve |-> "keep"],
     serve_run |->       \* handle = serve.run(OnlinePredictor.bind(...))
        [next |-> "post", remote |-> TRUE, serve |-> "up"],
     post |->            \* valid_dataset.take(1), requests.post(...)
        [next |-> "serve_shutdown", remote |-> TRUE, serve |-> "keep"],
     serve_shutdown |->  \* serve.shutdown(): the last cell; Ray stays up
        [next |-> "end", remote |-> TRUE, serve |-> "down"]]

LibraryCell ==
    /\ notebook = "ray_libraries"
    /\ pc \in DOMAIN LibraryCells
    /\ pc' = LibraryCells[pc].next
    /\ serve' = IF LibraryCells[pc].serve = "keep" THEN serve
                ELSE LibraryCells[pc].serve
    /\ IF LibraryCells[pc].remote THEN Issue ELSE UNCHANGED illegalCall
    /\ UNCHANGED <<notebook, ray, piVars, treeVars, unitVars>>

(***************************************************************************)
(* Callers outside the notebooks: the methods called directly, with any    *)
(* arguments.                                                              *)
(***************************************************************************)
\* progress_actor.report_progress(task_id, num_samples_completed)
CallReportProgress ==
    /\ notebook = "actor_calls"
    /\ pc = "calls"
    /\ Len(history) < MaxCalls
    /\ \E task_id \in 0..MaxTaskId, num_samples_completed \in 0..MaxCount :
          /\ progress_actor' =
                report_progress(progress_actor, task_id, num_samples_completed)
          /\ history' = Append(history, <<task_id, num_samples_completed>>)
    /\ UNCHANGED <<lifeVars, piGlobals, inbox, piTaskVars, piDriverVars,
                   treeVars, raised,
                   get_progress_call>>

\* progress = progress_actor.get_progress()
CallGetProgress ==
    /\ notebook = "actor_calls"
    /\ pc = "calls"
    /\ progress' = Bound(get_progress(progress_actor))
    /\ pc' = "got"
    /\ UNCHANGED <<notebook, ray, serve, illegalCall, piGlobals, piActorVars,
                   piTaskVars, printed, total_num_inside, pi, treeVars,
                   unitVars>>

\* the model names create_model is called with
ModelNames ==
    {"random_forest", "decision_tree", "xgboost",
     "linear_regression", "XGBoost", ""}

\* ModelFactory.create_model(model_name); an exception ends the caller
CallCreateModel ==
    /\ notebook = "factory_calls"
    /\ pc = "calls"
    /\ Len(history) < MaxFactoryCalls
    /\ \E model_name \in ModelNames :
          /\ history' = Append(history, model_name)
          /\ IF create_model(model_name).raised # Unbound
             THEN /\ raised' = create_model(model_name).raised
                  /\ pc' = "raised"
                  /\ UNCHANGED <<workers, illegalCall>>
             ELSE /\ workers' = Append(workers,
                        WorkerStart(create_model(model_name).actor[1]))
                  /\ Issue
                  /\ UNCHANGED <<raised, pc>>
    /\ UNCHANGED <<notebook, ray, serve, piVars, supervisor, supervisor_calls,
                   work, treeDriverVars, poolVars>>

(***************************************************************************)
(* Specifications.                                                         *)
(***************************************************************************)
InitPiVars ==
    /\ NUM_SAMPLING_TASKS = 0
    /\ NUM_SAMPLES_PER_TASK = 0
    /\ TOTAL_NUM_SAMPLES = 0
    /\ SAMPLE_REPORT_FREQUENCY = 0
    /\ progress_actor = NoActor
    /\ tasks = <<>>
    /\ inbox = <<>>
    /\ get_progress_call = <<>>
    /\ sent = <<>>
    /\ returned = <<>>
    /\ progress = Unbound
    /\ printed = Unbound
    /\ total_num_inside = Unbound
    /\ pi = Unbound

InitTreeVars ==
    /\ workers = <<>>
    /\ supervisor = NoSupervisor
    /\ supervisor_calls = <<>>
    /\ work = NoWork
    /\ values = Unbound
    /\ states = <<>>
    /\ sorted_by_mse = Unbound
    /\ model_ref = Unbound
    /\ input_shard_files = <<>>
    /\ actors = <<>>
    /\ actors_pool = NoPool
    /\ predictions = <<>>
    /\ get_next_r = [future |-> 0, value |-> Unbound]
    /\ yielded = <<>>
    /\ submitted = <<>>
    /\ predicted = <<>>
    /\ model_fetches = 0

\* a notebook is opened in a kernel where Ray may still be up from an earlier run
Init ==
    /\ notebook \in {"ex_02_remote_classes", "actor_tree", "ray_libraries"}
    /\ pc = "init"
    /\ ray \in {"down", "up"}
    /\ serve = "down"
    /\ illegalCall = FALSE
    /\ InitPiVars
    /\ InitTreeVars
    /\ history = <<>>
    /\ raised = Unbound

TaskStep(r) == SampleLoop(r) \/ SampleFinalReport(r) \/ SampleReturn(r)

NextPi ==
    \/ RayInitCell
    \/ ParametersCell
    \/ LaunchCell
    \/ PollCell
    \/ ActorGetProgress
    \/ PollGetCell
    \/ PiCell
    \/ RayShutdownCell
    \/ \E r \in 0..(MaxCpuCount - 1) : TaskStep(r)
    \/ \E r \in 0..(MaxCpuCount - 1) : ActorReportProgress(r)

NextTree ==
    \/ SupervisorCell
    \/ WorkCell
    \/ ValuesCell
    \/ StatesCell
    \/ SortCell
    \/ SupervisorInit
    \/ SupervisorWork
    \/ SupervisorWorkSubmit
    \/ SupervisorWorkGet
    \/ \E k \in 1..Len(workers) : WorkerTrainBegin(k)
    \/ \E k \in 1..Len(workers) : WorkerTrainEnd(k)
    \/ ModelCell
    \/ ActorsCell
    \/ SubmitCell
    \/ GetNextCell
    \/ RayGetCell
    \/ \E a \in 1..NUM_ACTORS : Predict(a)

\* the notebooks, each run from its first cell to its last
Next == NextPi \/ NextTree \/ LibraryCell

Spec == Init /\ [][Next]_vars

\* every task, every actor and the driver keep running: the runtime gives
\* each its own worker process
Fairness ==
    /\ \A r \in 0..(MaxCpuCount - 1) : WF_vars(TaskStep(r))
    /\ WF_vars(\E r \in 0..(MaxCpuCount - 1) : ActorReportProgress(r))
    /\ WF_vars(ActorGetProgress)
    /\ WF_vars(RayInitCell \/ ParametersCell \/ LaunchCell \/ PollCell
               \/ PollGetCell \/ PiCell \/ RayShutdownCell)

\* the pi notebook, run under that scheduling
InitPi == Init /\ notebook = "ex_02_remote_classes"

FairSpec == InitPi /\ [][NextPi]_vars /\ Fairness

\* the workers once each has trained its model, with the same mse and time
TrainedWorkers ==
    [k \in 1..Len(MODEL_TYPES) |->
        LET w == WorkerStart(create_model(MODEL_TYPES[k]).actor[1])
        IN [w EXCEPT !.state = "DONE", !.submitted = 1,
                     !.done = <<TrainResult(w, 1, 1)>>]]

\* the batch inference of the actor tree notebook, from the cell that follows
\* the sort to ray.shutdown(): the notebook's earlier cells have run
InitBatch ==
    /\ notebook = "actor_tree"
    /\ pc = "model"
    /\ ray = "up"
    /\ serve = "down"
    /\ illegalCall = FALSE
    /\ InitPiVars
    /\ workers = TrainedWorkers
    /\ supervisor = [state |-> "ready",
                     worker_models |-> [k \in 1..Len(MODEL_TYPES) |-> k]]
    /\ supervisor_calls = <<>>
    /\ work = [pc |-> "returned",
               results |-> [k \in 1..Len(MODEL_TYPES) |-> <<k, 1>>],
               ret |-> Bound([k \in 1..Len(MODEL_TYPES) |->
                                 TrainedWorkers[k].done[1]])]
    /\ values = work.ret
    /\ states = [k \in 1..Len(MODEL_TYPES) |-> "DONE"]
    /\ sorted_by_mse = Bound(SortedByMse(values[1]))
    /\ model_ref = Unbound
    /\ input_shard_files = <<>>
    /\ actors = <<>>
    /\ actors_pool = NoPool
    /\ predictions = <<>>
    /\ get_next_r = [future |-> 0, value |-> Unbound]
    /\ yielded = <<>>
    /\ submitted = <<>>
    /\ predicted = <<>>
    /\ model_fetches = 0
    /\ history = <<>>
    /\ raised = Unbound

NextBatch ==
    \/ ModelCell
    \/ ActorsCell
    \/ SubmitCell
    \/ GetNextCell
    \/ RayGetCell
    \/ \E a \in 1..NUM_ACTORS : Predict(a)
    \/ RayShutdownCell

\* the driver and every predictor actor keep running: each is a process of
\* its own
FairnessBatch ==
    /\ WF_vars(ModelCell \/ ActorsCell \/ SubmitCell \/ GetNextCell
               \/ RayGetCell \/ RayShutdownCell)
    /\ \A a \in 1..NUM_ACTORS : WF_vars(Predict(a))

FairSpecBatch == InitBatch /\ [][NextBatch]_vars /\ FairnessBatch

\* one sampling task run on its own, with any arguments
InitSamplingTask ==
    /\ notebook = "sampling_task"
    /\ pc = "wait"
    /\ ray = "up"
    /\ serve = "down"
    /\ illegalCall = FALSE
    /\ NUM_SAMPLING_TASKS = 0
    /\ NUM_SAMPLES_PER_TASK = 0
    /\ TOTAL_NUM_SAMPLES = 0
    /\ SAMPLE_REPORT_FREQUENCY = 0
    /\ \E num_samples \in 0..MaxNumSamples, task_id \in 0..(MaxCpuCount - 1),
          frequency_report \in 1..MaxFrequencyReport :
          /\ progress_actor = ProgressPIActorInit(num_samples)
          /\ tasks = DictSet(<<>>, task_id,
                SamplingTaskStart(num_samples, task_id, frequency_report))
          /\ inbox = DictSet(<<>>, task_id, <<>>)
          /\ get_progress_call = <<>>
          /\ sent = DictSet(<<>>, task_id, <<>>)
    /\ returned = <<>>
    /\ progress = Unbound
    /\ printed = Unbound
    /\ total_num_inside = Unbound
    /\ pi = Unbound
    /\ InitTreeVars
    /\ history = <<>>
    /\ raised = Unbound

NextSamplingTask ==
    \/ \E r \in 0..(MaxCpuCount - 1) : TaskStep(r)
    \/ \E r \in 0..(MaxCpuCount - 1) : ActorReportProgress(r)

SpecSamplingTask == InitSamplingTask /\ [][NextSamplingTask]_vars

\* a progress actor called directly, with any arguments
InitActorCalls ==
    /\ notebook = "actor_calls"
    /\ pc = "calls"
    /\ ray = "up"
    /\ serve = "down"
    /\ illegalCall = FALSE
    /\ NUM_SAMPLING_TASKS = 0
    /\ NUM_SAMPLES_PER_TASK = 0
    /\ TOTAL_NUM_SAMPLES = 0
    /\ SAMPLE_REPORT_FREQUENCY = 0
    /\ \E total_num_samples \in 1..MaxTotalSamples :
          progress_actor = ProgressPIActorInit(total_num_samples)
    /\ tasks = <<>>
    /\ inbox = <<>>
    /\ get_progress_call = <<>>
    /\ sent = <<>>
    /\ returned = <<>>
    /\ progress = Unbound
    /\ printed = Unbound
    /\ total_num_inside = Unbound
    /\ pi = Unbound
    /\ InitTreeVars
    /\ history = <<>>
    /\ raised = Unbound

NextActorCalls == CallReportProgress \/ CallGetProgress

SpecActorCalls == InitActorCalls /\ [][NextActorCalls]_vars

\* the model factory called directly, with any model names
InitFactoryCalls ==
    /\ notebook = "factory_calls"
    /\ pc = "calls"
    /\ ray = "up"
    /\ serve = "down"
    /\ illegalCall = FALSE
    /\ InitPiVars
    /\ InitTreeVars
    /\ history = <<>>
    /\ raised = Unbound

NextFactoryCalls == CallCreateModel

SpecFactoryCalls == InitFactoryCalls /\ [][NextFactoryCalls]_vars

(***************************************************************************)
(* Properties.                                                             *)
(***************************************************************************)
IsPi == notebook = "ex_02_remote_classes"

\* C1: in the pi example the value get_progress returns lies in [0, 1]:
\* 0 <= the sum of the stored counts <= total_num_samples, in every state
\* and for every value the driver has read
C1_ProgressInUnitInterval ==
    (IsPi /\ progress_actor.created) =>
        /\ progress_actor.total_num_samples > 0
        /\ 0 <= get_progress(progress_actor)[1]
        /\ get_progress(progress_actor)[1] <= get_progress(progress_actor)[2]
        /\ get_progress(progress_actor)[2] = progress_actor.total_num_samples
        /\ progress # Unbound =>
              /\ 0 <= progress[1][1]
              /\ progress[1][1] <= progress[1][2]

\* two tasks have reported and the driver has read a progress strictly
\* between 0 and 1
C1_Witness ==
    /\ IsPi
    /\ Cardinality(DOMAIN progress_actor.num_samples_completed_per_task) = 2
    /\ progress # Unbound
    /\ 0 < progress[1][1]
    /\ progress[1][1] < progress[1][2]

\* the count of the last call of a list of report_progress calls that names
\* task_id, 0 when none does
RECURSIVE LastCount(_, _)
LastCount(calls, task_id) ==
    IF calls = <<>> THEN 0
    ELSE IF calls[Len(calls)][1] = task_id THEN calls[Len(calls)][2]
    ELSE LastCount(SubSeq(calls, 1, Len(calls) - 1), task_id)

RECURSIVE SumOver(_, _, _)
SumOver(calls, from, to) ==
    IF from > to THEN 0
    ELSE LastCount(calls, from) + SumOver(calls, from + 1, to)

\* C2: after any sequence of report_progress calls get_progress returns the
\* sum, over the task ids, of the count of the last call for that id (0 for
\* an id never reported), divided by total_num_samples
C2_ProgressIsSumOfLastCounts ==
    (notebook = "actor_calls" /\ pc = "got") =>
        progress = Bound(Ratio(SumOver(history, 0, MaxTaskId),
                               progress_actor.total_num_samples))

\* a task id reported twice with different counts, another id in between
C2_Witness ==
    /\ notebook = "actor_calls"
    /\ pc = "got"
    /\ Len(history) = 3
    /\ history[1][1] = history[3][1]
    /\ history[1][1] # history[2][1]
    /\ history[1][2] > history[3][2]
    /\ history[3][2] > 0
    /\ history[2][2] > 0

\* C3: under fair scheduling and in-order delivery the polling loop of the
\* pi example eventually reads progress == 1 and ends, "Progress: 100%"
\* being the last line printed
C3_PollingTerminates ==
    IsPi ~> (/\ pc \in {"pi", "shutdown", "end"}
             /\ progress = Bound(Ratio(TOTAL_NUM_SAMPLES, TOTAL_NUM_SAMPLES))
             /\ printed = Bound(100))

\* the loop has ended with two tasks whose samples are no multiple of
\* the report frequency: only the final report completes the count
C3_Witness ==
    /\ IsPi
    /\ pc = "pi"
    /\ NUM_SAMPLING_TASKS = 2
    /\ NUM_SAMPLES_PER_TASK % SAMPLE_REPORT_FREQUENCY # 0
    /\ progress = Bound(Ratio(TOTAL_NUM_SAMPLES, TOTAL_NUM_SAMPLES))
    /\ printed = Bound(100)

Supported(model_name) ==
    model_name \in {"random_forest", "decision_tree", "xgboost"}

\* C4: create_model with a name that is not one of the three raises
\* "<model_name> not supported" and creates no worker actor
C4_UnsupportedModelRaises ==
    notebook = "factory_calls" =>
        /\ Len(workers) =
              Cardinality({k \in 1..Len(history) : Supported(history[k])})
        /\ \A k \in 1..Len(history) :
              ~Supported(history[k]) =>
                  /\ k = Len(history)
                  /\ pc = "raised"
                  /\ raised = Bound(history[k] \o " not supported")
        /\ pc = "raised" => ~Supported(history[Len(history)])

\* a call with a name that differs from a supported one only by its case,
\* after two calls that created an actor each
C4_Witness ==
    /\ notebook = "factory_calls"
    /\ pc = "raised"
    /\ Len(history) = 3
    /\ history[3] = "XGBoost"
    /\ raised = Bound("XGBoost not supported")
    /\ Len(workers) = 2

\* C5: after the construction of the Supervisor worker_models holds exactly
\* three worker actors: an RFRActor with RANDOM_FOREST_CONFIGS, a DTActor with
\* DECISION_TREE_CONFIGS and an XGBoostActor with XGBOOST_CONFIGS, in the
\* order of MODEL_TYPES
C5_ThreeWorkersInOrder ==
    supervisor.state = "ready" =>
        /\ MODEL_TYPES = <<"random_forest", "decision_tree", "xgboost">>
        /\ Len(supervisor.worker_models) = 3
        /\ Len(workers) = 3
        /\ \A j \in 1..3 : supervisor.worker_models[j] \in 1..Len(workers)
        /\ \A j, k \in 1..3 :
              j # k => supervisor.worker_models[j] # supervisor.worker_models[k]
        /\ workers[supervisor.worker_models[1]].cls = "RFRActor"
        /\ workers[supervisor.worker_models[1]].configs = "RANDOM_FOREST_CONFIGS"
        /\ workers[supervisor.worker_models[2]].cls = "DTActor"
        /\ workers[supervisor.worker_models[2]].configs = "DECISION_TREE_CONFIGS"
        /\ workers[supervisor.worker_models[3]].cls = "XGBoostActor"
        /\ workers[supervisor.worker_models[3]].configs = "XGBOOST_CONFIGS"

\* the Supervisor is constructed and no call of work() has begun
C5_Witness ==
    /\ notebook = "actor_tree"
    /\ supervisor.state = "ready"
    /\ work.pc = "idle"
    /\ Len(supervisor.worker_models) = 3

\* C6: work() starts train_and_evaluate_model exactly once on every worker,
\* all three before it awaits a result, and returns only after all three
\* have completed, with one result per worker in the order of worker_models
C6_WorkFansOutThenCollects ==
    notebook = "actor_tree" =>
        /\ \A k \in 1..Len(workers) : workers[k].submitted <= 1
        /\ work.pc \in {"get", "returned"} =>
              /\ Len(work.results) = 3
              /\ \A j \in 1..3 :
                    /\ work.results[j][1] = supervisor.worker_models[j]
                    /\ workers[supervisor.worker_models[j]].submitted = 1
        /\ work.pc = "returned" =>
              /\ Len(work.ret[1]) = 3
              /\ \A j \in 1..3 :
                    /\ Len(workers[supervisor.worker_models[j]].done) = 1
                    /\ workers[supervisor.worker_models[j]].state = "DONE"
                    /\ work.ret[1][j] =
                          workers[supervisor.worker_models[j]].done[1]
                    /\ work.ret[1][j].name = MODEL_TYPES[j]

\* work() has returned three results that are not all alike
C6_Witness ==
    /\ notebook = "actor_tree"
    /\ work.pc = "returned"
    /\ work.ret[1][1].mse > work.ret[1][2].mse
    /\ work.ret[1][2].mse < work.ret[1][3].mse

\* C7: every result record work() returns to the driver has state 'DONE'
C7_ResultsAreDone ==
    /\ work.ret # Unbound =>
          \A j \in 1..Len(work.ret[1]) : work.ret[1][j].state = "DONE"
    /\ values # Unbound =>
          /\ Len(values[1]) = 3
          /\ \A j \in 1..Len(values[1]) : values[1][j].state = "DONE"

\* the driver holds the three records
C7_Witness ==
    /\ notebook = "actor_tree"
    /\ pc = "states"
    /\ values # Unbound
    /\ Len(values[1]) = 3

\* C8: every notebook goes init -> remote work -> shut down: no task or
\* actor call is issued while the runtime is not initialized, and the last
\* cell leaves the runtime shut down
C8_InitWorkShutdown ==
    /\ illegalCall = FALSE
    /\ pc = "end" => ray = "down"

\* the reports a task that has drawn i samples has sent in its loop
LoopReports(i, frequency_report) ==
    [k \in 1..(i \div frequency_report) |-> k * frequency_report]

\* C9: sampling_task reports exactly frequency_report, 2 * frequency_report,
\* ... <= num_samples, each right after that sample is drawn, then
\* num_samples once more: num_samples \div frequency_report + 1 reports
C9_ReportsSent ==
    notebook = "sampling_task" =>
        \A r \in DOMAIN tasks :
            /\ tasks[r].pc = "loop" =>
                  sent[r] = LoopReports(tasks[r].i, tasks[r].frequency_report)
            /\ tasks[r].pc \in {"return", "done"} =>
                  /\ sent[r] = LoopReports(tasks[r].num_samples,
                                           tasks[r].frequency_report)
                               \o <<tasks[r].num_samples>>
                  /\ Len(sent[r]) =
                        tasks[r].num_samples \div tasks[r].frequency_report + 1
            /\ \A k \in 1..Len(inbox[r]) : inbox[r][k][1] = tasks[r].task_id
            /\ \A k \in 1..Len(inbox[r]) :
                  inbox[r][k][2] = sent[r][Len(sent[r]) - Len(inbox[r]) + k]

\* five samples reported every two: 2, 4 and the final 5
C9_Witness ==
    /\ notebook = "sampling_task"
    /\ \E r \in DOMAIN tasks :
          /\ tasks[r].pc = "done"
          /\ tasks[r].num_samples = 5
          /\ tasks[r].frequency_report = 2
          /\ sent[r] = <<2, 4, 5>>

\* 0 <= num_inside <= the samples drawn <= num_samples, and the value
\* returned is num_inside
NumInsideBounds ==
    notebook = "sampling_task" =>
        \A r \in DOMAIN tasks :
            /\ 0 <= tasks[r].num_inside
            /\ tasks[r].num_inside <= tasks[r].i
            /\ tasks[r].i <= tasks[r].num_samples
            /\ r \in DOMAIN returned =>
                  /\ returned[r] = tasks[r].num_inside
                  /\ 0 <= returned[r]
                  /\ returned[r] <= tasks[r].num_samples
                  /\ tasks[r].num_samples = 0 => returned[r] = 0

\* num_inside changes only with a sample drawn, and by 0 or 1
NumInsideStep ==
    \A r \in DOMAIN tasks :
        \/ tasks'[r].num_inside = tasks[r].num_inside
        \/ /\ tasks'[r].num_inside = tasks[r].num_inside + 1
           /\ tasks'[r].i = tasks[r].i + 1

\* C10: sampling_task returns num_inside, which starts at 0, grows by at
\* most 1 per sample and stays within 0..num_samples; it is 0 for
\* num_samples = 0
C10_NumInside ==
    /\ (\A r \in DOMAIN tasks : tasks[r].num_inside = 0)
    /\ []NumInsideBounds
    /\ [][NumInsideStep]_vars

\* three samples of which two fell inside
C10_Witness ==
    /\ notebook = "sampling_task"
    /\ \E r \in DOMAIN returned :
          /\ tasks[r].num_samples = 3
          /\ returned[r] = 2

\* C11: once pi is bound, every one of the NUM_SAMPLING_TASKS sampling tasks
\* has returned, total_num_inside is the sum of their return values, pi is
\* (4 * total_num_inside) / TOTAL_NUM_SAMPLES, and
\* 0 <= 4 * total_num_inside <= 4 * TOTAL_NUM_SAMPLES.
C11_PiEstimate ==
    (IsPi /\ pi # Unbound) =>
        /\ \A i \in 0..(NUM_SAMPLING_TASKS - 1) :
              /\ i \in DOMAIN tasks
              /\ tasks[i].pc = "done"
              /\ i \in DOMAIN returned
              /\ returned[i] = tasks[i].num_inside
        /\ DOMAIN returned = 0..(NUM_SAMPLING_TASKS - 1)
        /\ total_num_inside = Bound(SumValues(returned))
        /\ pi = Bound(Ratio(4 * SumValues(returned), TOTAL_NUM_SAMPLES))
        /\ 0 <= 4 * total_num_inside[1]
        /\ 4 * total_num_inside[1] <= 4 * TOTAL_NUM_SAMPLES

\* pi computed from two tasks, some samples inside the circle and some not
C11_Witness ==
    /\ IsPi
    /\ pi # Unbound
    /\ NUM_SAMPLING_TASKS = 2
    /\ returned[0] > 0
    /\ returned[1] > 0
    /\ total_num_inside[1] < TOTAL_NUM_SAMPLES

\* C12: the driver launches NUM_SAMPLING_TASKS sampling tasks, the i-th with
\* task id i, num_samples = NUM_SAMPLES_PER_TASK and the one progress actor;
\* the keys of the actor's mapping are within 0..NUM_SAMPLING_TASKS-1 and
\* each stored value is at most NUM_SAMPLES_PER_TASK.
C12_TasksLaunched ==
    IsPi =>
        /\ DOMAIN tasks \subseteq 0..(NUM_SAMPLING_TASKS - 1)
        /\ pc \notin {"init", "parameters", "launch"} =>
              DOMAIN tasks = 0..(NUM_SAMPLING_TASKS - 1)
        /\ \A i \in DOMAIN tasks :
              /\ tasks[i].task_id = i
              /\ tasks[i].num_samples = NUM_SAMPLES_PER_TASK
              /\ tasks[i].frequency_report = SAMPLE_REPORT_FREQUENCY
        /\ \A i, j \in DOMAIN tasks :
              i # j => tasks[i].task_id # tasks[j].task_id
        /\ DOMAIN tasks # {} =>
              /\ progress_actor.created
              /\ progress_actor.total_num_samples = TOTAL_NUM_SAMPLES
        /\ DOMAIN progress_actor.num_samples_completed_per_task
              \subseteq 0..(NUM_SAMPLING_TASKS - 1)
        /\ \A k \in DOMAIN progress_actor.num_samples_completed_per_task :
              progress_actor.num_samples_completed_per_task[k]
                  <= NUM_SAMPLES_PER_TASK

\* two tasks were launched and the actor holds a count for each of them
C12_Witness ==
    /\ IsPi
    /\ pc = "poll"
    /\ NUM_SAMPLING_TASKS = 2
    /\ DOMAIN tasks = {0, 1}
    /\ DOMAIN progress_actor.num_samples_completed_per_task = {0, 1}
    /\ progress_actor.num_samples_completed_per_task[1] = NUM_SAMPLES_PER_TASK

\* list a is a permutation of list b: the same records, each as many times
IsPermutation(a, b) ==
    /\ Len(a) = Len(b)
    /\ \E f \in [1..Len(a) -> 1..Len(a)] :
          /\ \A i, j \in 1..Len(a) : f[i] = f[j] => i = j
          /\ \A i \in 1..Len(a) : a[i] = b[f[i]]

\* C13: once bound, sorted_by_mse is a permutation of the records of values
\* in non-decreasing order of mse, and values is still the list that
\* ray.get returned.
C13_SortedByMse ==
    (notebook = "actor_tree" /\ sorted_by_mse # Unbound) =>
        /\ IsPermutation(sorted_by_mse[1], values[1])
        /\ \A i \in 1..(Len(sorted_by_mse[1]) - 1) :
              sorted_by_mse[1][i].mse <= sorted_by_mse[1][i + 1].mse
        /\ values = work.ret
        /\ Len(values[1]) = Len(MODEL_TYPES)

\* values came back out of order, with two records of the same mse
C13_Witness ==
    /\ notebook = "actor_tree"
    /\ sorted_by_mse # Unbound
    /\ values[1][1].mse > values[1][2].mse
    /\ values[1][2].mse = values[1][3].mse
    /\ sorted_by_mse[1] # values[1]

\* the shards of a list
Shards(list) == {list[k] : k \in 1..Len(list)}

\* the driver's loop passes each shard path to actors_pool.submit once, each
\* shard is predicted by one actor, and the retrieval loop is handed one
\* result for each shard, NUM_SHARD_FILES when it is over
ShardsOnce ==
    notebook = "actor_tree" =>
        /\ Len(submitted) <= Len(input_shard_files)
        /\ \A k \in 1..Len(submitted) : submitted[k] = input_shard_files[k]
        /\ \A j, k \in 1..Len(input_shard_files) :
              input_shard_files[j] = input_shard_files[k] => j = k
        /\ pc \in {"get_next", "ray_get", "shutdown", "end"} =>
              /\ Len(input_shard_files) = NUM_SHARD_FILES
              /\ submitted = input_shard_files
        /\ DOMAIN predicted \subseteq Shards(submitted)
        /\ \A shard \in DOMAIN predicted :
              /\ Len(predicted[shard]) = 1
              /\ predicted[shard][1] \in 1..Len(actors)
        /\ Len(yielded) <= NUM_SHARD_FILES
        /\ \A j, k \in 1..Len(yielded) :
              yielded[j].shard = yielded[k].shard => j = k
        /\ \A k \in 1..Len(yielded) : yielded[k].shard \in DOMAIN predicted
        /\ pc \in {"shutdown", "end"} =>
              /\ Len(yielded) = NUM_SHARD_FILES
              /\ Shards(input_shard_files) = DOMAIN predicted
              /\ {yielded[k].shard : k \in 1..Len(yielded)}
                     = Shards(input_shard_files)
              /\ ~ActorPoolHasNext(actors_pool)

\* C14: every shard path is submitted to the pool once, each submitted shard
\* is predicted by one pool actor, and the retrieval loop yields
\* NUM_SHARD_FILES results, one for each shard, and then ends.
C14_EveryShardOnce ==
    /\ []ShardsOnce
    /\ (notebook = "actor_tree" /\ pc = "submit")
          ~> (pc \in {"shutdown", "end"} /\ Len(yielded) = NUM_SHARD_FILES)

\* the retrieval loop is over and some actor predicted two of the shards
C14_Witness ==
    /\ notebook = "actor_tree"
    /\ pc = "shutdown"
    /\ Len(yielded) = NUM_SHARD_FILES
    /\ \E j, k \in DOMAIN predicted : j # k /\ predicted[j] = predicted[k]

\* the actors an ActorPool holds, idle or with a future
PoolActors(pool) ==
    {pool.idle_actors[k] : k \in 1..Len(pool.idle_actors)}
    \cup {pool.future_to_actor[f] : f \in DOMAIN pool.future_to_actor}

\* C15: once the actors cell has run there are five NYCBatchPredictor actors,
\* each constructed with the model of model_ref, and the pool holds those
\* five.
C15_FiveActors ==
    (notebook = "actor_tree"
     /\ pc \in {"submit", "get_next", "ray_get", "shutdown", "end"}) =>
        /\ Len(actors) = 5
        /\ \A a \in 1..Len(actors) : actors[a].model = model_ref[1]
        /\ PoolActors(actors_pool) = 1..5

\* C16: the model is fetched once for each actor, when it is constructed;
\* predict leaves self.model as the constructor set it and every prediction
\* is made with that model, so the fetches number the actors, not the shards.
C16_ModelFetchedOncePerActor ==
    notebook = "actor_tree" =>
        /\ model_fetches = Len(actors)
        /\ model_fetches <= NUM_ACTORS
        /\ \A a \in 1..Len(actors) : actors[a].model = model_ref[1]
        /\ \A f \in DOMAIN predictions :
              predictions[f].model = model_ref[1]

\* every shard is predicted, more shards than actors, one fetch for each actor
C16_Witness ==
    /\ notebook = "actor_tree"
    /\ pc = "shutdown"
    /\ DOMAIN predictions = 0..(NUM_SHARD_FILES - 1)
    /\ \E a \in 1..Len(actors) :
          Cardinality({sh \in DOMAIN predicted : predicted[sh] = <<a>>}) = 2
    /\ model_fetches = NUM_ACTORS
    /\ model_fetches < NUM_SHARD_FILES

\* the number of report_progress messages of task r the actor has handled
Delivered(r) == Len(sent[r]) - Len(inbox[r])

\* C17: the count the actor holds for a task is the last one it has handled
\* of that task's own messages, whatever messages of the other tasks came
\* before, between or after; once every message is handled the mapping is
\* the same in every interleaving, NUM_SAMPLES_PER_TASK for each task.
C17_InterleavingIndependent ==
    IsPi =>
        /\ \A r \in DOMAIN tasks :
              IF Delivered(r) = 0
              THEN r \notin DOMAIN progress_actor.num_samples_completed_per_task
              ELSE /\ r \in DOMAIN progress_actor.num_samples_completed_per_task
                   /\ progress_actor.num_samples_completed_per_task[r]
                         = sent[r][Delivered(r)]
        /\ (/\ DOMAIN tasks = 0..(NUM_SAMPLING_TASKS - 1)
            /\ NUM_SAMPLING_TASKS > 0
            /\ \A r \in DOMAIN tasks :
                  tasks[r].pc \in {"return", "done"} /\ inbox[r] = <<>>)
           => progress_actor.num_samples_completed_per_task
                 = [r \in 0..(NUM_SAMPLING_TASKS - 1) |-> NUM_SAMPLES_PER_TASK]

\* two tasks sent several messages each and the actor has handled them all
C17_Witness ==
    /\ IsPi
    /\ NUM_SAMPLING_TASKS = 2
    /\ DOMAIN tasks = {0, 1}
    /\ \A r \in {0, 1} :
          /\ tasks[r].pc = "done"
          /\ inbox[r] = <<>>
          /\ Len(sent[r]) >= 3
    /\ progress_actor.num_samples_completed_per_task
          = [r \in {0, 1} |-> NUM_SAMPLES_PER_TASK]

====
